---- MODULE Spec2Model ----
(***************************************************************************)
(* Model of the bookocr page pipeline: BookProcessor.process_book and the  *)
(* components it drives (PDFHandler.extract_pages, GeminiClient with its   *)
(* retry decorator and response parser, ContextManager, MarkdownStitcher   *)
(* and the JSON page cache).                                                *)
(*                                                                         *)
(* Python strings are sequences of one-character strings. Python's None    *)
(* is the value None below, a sequence no text can equal.                  *)
(***************************************************************************)
EXTENDS Integers, Sequences, FiniteSets, TLC

(***************************************************************************)
(* Strings                                                                 *)
(***************************************************************************)

None == << "None" >>

\* str.isspace for the characters of the model
WS == {" ", "\n", "\t"}

Digits == <<"0", "1", "2", "3", "4", "5", "6", "7", "8", "9">>

DigitSet == {Digits[i] : i \in 1..Len(Digits)}

UpperChars == <<"A","B","C","D","E","F","G","H","I","J","K","L","M",
                "N","O","P","Q","R","S","T","U","V","W","X","Y","Z">>

LowerChars == <<"a","b","c","d","e","f","g","h","i","j","k","l","m",
                "n","o","p","q","r","s","t","u","v","w","x","y","z">>

\* bool(x) of an Optional[str]
Truthy(s) == s # None /\ s # <<>>

\* s[a:b] with 0 <= a, b <= len(s) (0-based, end exclusive)
Slice(s, a, b) == IF b <= a THEN <<>> ELSE SubSeq(s, a + 1, b)

\* s[i:].startswith(sub), i 0-based
StartsAt(s, sub, i) ==
    /\ i + Len(sub) <= Len(s)
    /\ \A k \in 1..Len(sub) : s[i + k] = sub[k]

\* s.find(sub, start): the lowest 0-based index, or -1
RECURSIVE Find(_, _, _)
Find(s, sub, start) ==
    IF start + Len(sub) > Len(s) THEN -1
    ELSE IF StartsAt(s, sub, start) THEN start
    ELSE Find(s, sub, start + 1)

\* sub in s
Contains(s, sub) == Find(s, sub, 0) # -1

RECURSIVE LStrip(_)
LStrip(s) ==
    IF s = <<>> THEN s
    ELSE IF Head(s) \in WS THEN LStrip(Tail(s)) ELSE s

RECURSIVE RStrip(_)
RStrip(s) ==
    IF s = <<>> THEN s
    ELSE IF s[Len(s)] \in WS THEN RStrip(SubSeq(s, 1, Len(s) - 1)) ELSE s

\* str.strip()
Strip(s) == RStrip(LStrip(s))

\* s.replace(old, new), old non-empty: left to right, non-overlapping
RECURSIVE Replace(_, _, _)
Replace(s, old, new) ==
    IF s = <<>> THEN <<>>
    ELSE IF StartsAt(s, old, 0)
         THEN new \o Replace(SubSeq(s, Len(old) + 1, Len(s)), old, new)
         ELSE <<Head(s)>> \o Replace(Tail(s), old, new)

\* s.split(sep) for a one-character sep: always at least one piece
RECURSIVE Split(_, _)
Split(s, sep) ==
    LET i == Find(s, <<sep>>, 0)
    IN  IF i = -1 THEN <<s>>
        ELSE <<Slice(s, 0, i)>> \o Split(SubSeq(s, i + 2, Len(s)), sep)

\* sep.join(parts)
RECURSIVE Join(_, _)
Join(parts, sep) ==
    IF parts = <<>> THEN <<>>
    ELSE IF Len(parts) = 1 THEN parts[1]
    ELSE parts[1] \o sep \o Join(Tail(parts), sep)

LowerChar(c) ==
    IF \E i \in 1..Len(UpperChars) : UpperChars[i] = c
    THEN LowerChars[CHOOSE i \in 1..Len(UpperChars) : UpperChars[i] = c]
    ELSE c

\* str.lower()
Lower(s) == [i \in 1..Len(s) |-> LowerChar(s[i])]

\* str(n) for n >= 0: the decimal digits
RECURSIVE Str(_)
Str(n) ==
    IF n < 10 THEN <<Digits[n + 1]>>
    ELSE Str(n \div 10) \o <<Digits[(n % 10) + 1]>>

\* the length of the run of characters of set S that starts at 0-based i
RECURSIVE RunLen(_, _, _)
RunLen(s, i, S) ==
    IF i < Len(s) /\ s[i + 1] \in S THEN 1 + RunLen(s, i + 1, S) ELSE 0

(***************************************************************************)
(* GeminiClient._parse_response                                            *)
(***************************************************************************)

\* the backquote character, which a TLA+ string cannot hold
BQ == "BACKQUOTE"

FenceMd == <<BQ, BQ, BQ, "m", "a", "r", "k", "d", "o", "w", "n">>

Fence == <<BQ, BQ, BQ>>

EolTag == <<"{", "E", "O", "L", "}">>

IncompleteTag == <<"{", "I", "N", "C", "O", "M", "P", "L", "E", "T", "E", ":">>

CloseBrace == <<"}">>

\* the markdown before the {EOL} clean-up (lines 115-123)
ParseMarkdown(response_text) ==
    IF Contains(response_text, FenceMd)
    THEN LET start == Find(response_text, FenceMd, 0) + Len(FenceMd)
             end   == Find(response_text, Fence, start)
         IN  IF end # -1 THEN Strip(Slice(response_text, start, end)) ELSE <<>>
    ELSE Strip(response_text)

\* faulty variant: the fragment is taken as it stands between the markers
ParseIncompleteUntrimmed(response_text) ==
    IF Contains(response_text, EolTag) /\ Contains(response_text, IncompleteTag)
    THEN LET incomplete_start ==
                 Find(response_text, IncompleteTag, 0) + Len(IncompleteTag)
             incomplete_end == Find(response_text, CloseBrace, incomplete_start)
         IN  IF incomplete_end # -1
             THEN Slice(response_text, incomplete_start, incomplete_end)
             ELSE None
    ELSE None

\* the incomplete_text of the result (lines 126-134)
ParseIncomplete(response_text) ==
    IF Contains(response_text, EolTag) /\ Contains(response_text, IncompleteTag)
    THEN LET incomplete_start ==
                 Find(response_text, IncompleteTag, 0) + Len(IncompleteTag)
             incomplete_end == Find(response_text, CloseBrace, incomplete_start)
         IN  IF incomplete_end # -1
             THEN Strip(Slice(response_text, incomplete_start, incomplete_end))
             ELSE None
    ELSE None

ParseResponse(response_text) ==
    [markdown        |-> Strip(Replace(ParseMarkdown(response_text), EolTag, <<>>)),
     ends_incomplete |-> Contains(response_text, EolTag),
     incomplete_text |-> ParseIncomplete(response_text)]

(***************************************************************************)
(* MarkdownStitcher                                                        *)
(***************************************************************************)

HeaderMaxLevel == 6

SimilarityNum == 4

SimilarityDen == 5

MarkupChars == {"#", "*", "_", "[", "]"}

\* the bullet character U+2022, which a TLA+ string cannot hold
Bullet == "BULLET"

BulletChars == {Bullet, "-", "*"}

\* faulty variant: a page goes before the pages of the same number
RECURSIVE InsertPageBefore(_, _)
InsertPageBefore(sorted, page) ==
    IF sorted = <<>> THEN <<page>>
    ELSE IF sorted[Len(sorted)].number < page.number THEN Append(sorted, page)
    ELSE Append(InsertPageBefore(SubSeq(sorted, 1, Len(sorted) - 1), page),
                sorted[Len(sorted)])

\* pages.sort(key=number): a stable insertion sort
RECURSIVE InsertPage(_, _)
InsertPage(sorted, page) ==
    IF sorted = <<>> THEN <<page>>
    ELSE IF sorted[Len(sorted)].number <= page.number THEN Append(sorted, page)
    ELSE Append(InsertPage(SubSeq(sorted, 1, Len(sorted) - 1), page),
                sorted[Len(sorted)])

RECURSIVE SortPages(_)
SortPages(pages) ==
    IF pages = <<>> THEN <<>>
    ELSE InsertPage(SortPages(SubSeq(pages, 1, Len(pages) - 1)), pages[Len(pages)])

\* re.sub(r'\n{k,}', repl, s)
RECURSIVE SubNewlineRuns(_, _, _)
SubNewlineRuns(s, k, repl) ==
    IF s = <<>> THEN <<>>
    ELSE LET r == RunLen(s, 0, {"\n"})
         IN  IF r >= k THEN repl \o SubNewlineRuns(SubSeq(s, r + 1, Len(s)), k, repl)
             ELSE IF r > 0
                  THEN SubSeq(s, 1, r) \o SubNewlineRuns(SubSeq(s, r + 1, Len(s)), k, repl)
                  ELSE <<Head(s)>> \o SubNewlineRuns(Tail(s), k, repl)

CleanPageContent(content) == Strip(SubNewlineRuns(content, 3, <<"\n", "\n">>))

\* re.match(r'^#{1,6}\s+', line)
IsHeader(line) ==
    LET h == RunLen(line, 0, {"#"})
    IN  h >= 1 /\ h <= HeaderMaxLevel /\ RunLen(line, h, WS) >= 1

\* re.sub(r'[#*_\[\]]', '', text).lower()
CleanText(text) == Lower(SelectSeq(text, LAMBDA c : c \notin MarkupChars))

\* sum(1 for a, b in zip(clean1, clean2) if a == b)
CommonCount(clean1, clean2) ==
    LET n == IF Len(clean1) < Len(clean2) THEN Len(clean1) ELSE Len(clean2)
    IN  Cardinality({i \in 1..n : clean1[i] = clean2[i]})

\* max(clean1, clean2, key=len) and min(clean1, clean2, key=len) both return
\* their first argument when the lengths are equal
LongerOf(clean1, clean2) == IF Len(clean2) > Len(clean1) THEN clean2 ELSE clean1

ShorterOf(clean1, clean2) == IF Len(clean2) < Len(clean1) THEN clean2 ELSE clean1

SimilarText(text1, text2) ==
    LET clean1 == CleanText(text1)
        clean2 == CleanText(text2)
    IN  IF clean1 = <<>> \/ clean2 = <<>> THEN FALSE
        ELSE IF Contains(LongerOf(clean1, clean2), ShorterOf(clean1, clean2)) THEN TRUE
        ELSE CommonCount(clean1, clean2) * SimilarityDen
                 >= SimilarityNum * Len(LongerOf(clean1, clean2))

HandlePageTransition(previous_last_line, current_content) ==
    IF previous_last_line = <<>> \/ current_content = <<>> THEN current_content
    ELSE LET current_lines      == Split(current_content, "\n")
             current_first_line == Strip(current_lines[1])
             previous_cleaned   == Strip(previous_last_line)
         IN  IF /\ IsHeader(previous_cleaned)
                /\ IsHeader(current_first_line)
                /\ SimilarText(previous_cleaned, current_first_line)
             THEN Join(Tail(current_lines), <<"\n">>)
             ELSE current_content

\* re.sub(r'\n(#{1,6}\s+)', r'\n\n\1', s)
RECURSIVE SpaceHeaders(_)
SpaceHeaders(s) ==
    IF s = <<>> THEN <<>>
    ELSE IF Head(s) # "\n" THEN <<Head(s)>> \o SpaceHeaders(Tail(s))
    ELSE LET h == RunLen(s, 1, {"#"})
             w == RunLen(s, 1 + h, WS)
         IN  IF h >= 1 /\ h <= HeaderMaxLevel /\ w >= 1
             THEN <<"\n", "\n">> \o SubSeq(s, 2, 1 + h + w)
                      \o SpaceHeaders(SubSeq(s, 2 + h + w, Len(s)))
             ELSE <<"\n">> \o SpaceHeaders(Tail(s))

\* re.sub(r'\n([BULLET\-\*])\s+', r'\n\1 ', s)
RECURSIVE NormalizeBullets(_)
NormalizeBullets(s) ==
    IF s = <<>> THEN <<>>
    ELSE IF Head(s) # "\n" THEN <<Head(s)>> \o NormalizeBullets(Tail(s))
    ELSE LET w == RunLen(s, 2, WS)
         IN  IF Len(s) >= 2 /\ s[2] \in BulletChars /\ w >= 1
             THEN <<"\n", s[2], " ">> \o NormalizeBullets(SubSeq(s, 3 + w, Len(s)))
             ELSE <<"\n">> \o NormalizeBullets(Tail(s))

\* the 0-based index of the last "\n" among s[from:to], or -1
RECURSIVE LastNewline(_, _, _)
LastNewline(s, from, to) ==
    IF to <= from THEN -1
    ELSE IF s[to] = "\n" THEN to - 1
    ELSE LastNewline(s, from, to - 1)

\* re.sub(r'\n\s*\d+\s*\n', '\n', s)
RECURSIVE DropPageNumbers(_)
DropPageNumbers(s) ==
    IF s = <<>> THEN <<>>
    ELSE IF Head(s) # "\n" THEN <<Head(s)>> \o DropPageNumbers(Tail(s))
    ELSE LET w1 == RunLen(s, 1, WS)
             d  == RunLen(s, 1 + w1, DigitSet)
             w2 == RunLen(s, 1 + w1 + d, WS)
             e  == LastNewline(s, 1 + w1 + d, 1 + w1 + d + w2)
         IN  IF d >= 1 /\ e # -1
             THEN <<"\n">> \o DropPageNumbers(SubSeq(s, e + 2, Len(s)))
             ELSE <<"\n">> \o DropPageNumbers(Tail(s))

FinalCleanup(markdown) ==
    Strip(DropPageNumbers(NormalizeBullets(SpaceHeaders(
        SubNewlineRuns(markdown, 4, <<"\n", "\n", "\n">>)))))

\* the loop of stitch_all over the sorted pages: the cleaned page contents
RECURSIVE StitchPages(_, _, _)
StitchPages(pages, i, previous_last_line) ==
    IF i > Len(pages) THEN <<>>
    ELSE LET cleaned == CleanPageContent(pages[i].content)
             content == IF i > 1
                        THEN HandlePageTransition(previous_last_line, cleaned)
                        ELSE cleaned
             lines   == Split(Strip(content), "\n")
         IN  <<content>> \o StitchPages(pages, i + 1, lines[Len(lines)])

StitchAll(pages) ==
    IF pages = <<>> THEN <<>>
    ELSE FinalCleanup(Join(StitchPages(SortPages(pages), 1, <<>>), <<"\n", "\n">>))

\* len(s.split()): the number of whitespace-delimited words
WordCount(s) ==
    Cardinality({i \in 1..Len(s) : s[i] \notin WS /\ (i = 1 \/ s[i - 1] \in WS)})

GetStats(pages) ==
    IF pages = <<>>
    THEN [total_pages |-> 0, total_chars |-> 0, total_words |-> 0]
    ELSE LET all_content == Join([i \in 1..Len(pages) |-> pages[i].content], <<" ">>)
         IN  [total_pages        |-> Len(pages),
              total_chars        |-> Len(all_content),
              total_words        |-> WordCount(all_content),
              avg_chars_per_page |-> Len(all_content) \div Len(pages)]

(***************************************************************************)
(* The environment of one document                                         *)
(***************************************************************************)

\* the number of pages of the document
NumPages == 2

\* the number of process_book calls a behaviour makes
MaxRuns == 2

\* stop_after_attempt(3)
MaxAttempts == 3

\* the kinds of exception model.generate_content / response.text can raise
ErrorKinds == {"network", "blocked"}

RespComplete ==
    FenceMd \o <<"\n", "a", "\n">> \o Fence

RespIncomplete ==
    FenceMd \o <<"\n", "b", "\n">> \o Fence \o <<"\n">> \o EolTag \o <<"\n">>
        \o IncompleteTag \o <<" ", "b", "}">>

\* the raw texts the remote model answers with: a page that ends cleanly, and
\* a page cut off at the bottom with its fragment
Responses == {RespComplete, RespIncomplete}

EmptyMap == <<>>

NoResult == [markdown |-> <<>>, ends_incomplete |-> FALSE, incomplete_text |-> None]

NoError == [kind |-> "none", attempt |-> 0]

AbsentFile == [st |-> "absent", data |-> <<>>]

\* a file opened with mode 'w' and not yet completely written
PartialFile == [st |-> "partial", data |-> <<>>]

VARIABLES
    pc,               \* where the process is in process_book
    stopped_at,       \* the pc at which the run was interrupted or failed
    runs,             \* process_book calls made so far
    args,             \* start_page, end_page, resume of this call
    cacheFile,        \* the cache file of the document on disk
    outputFile,       \* the output file on disk
    processed_pages,  \* the local mapping of process_book
    stats,            \* the local stats dictionary
    page_num,         \* the loop variable of extract_pages
    result,           \* the local result of the page loop
    attempt,          \* the attempts the running extract call has made
    last_error,       \* the exception of its latest failed attempt
    raised,           \* the exception propagating, if any
    current_context,  \* ContextManager.current_context
    context_history,  \* ContextManager.context_history
    pages,            \* MarkdownStitcher.pages
    final_markdown,   \* the local final_markdown
    pageLog,          \* history: the pages yielded in this run and how each ended
    calls,            \* history: the extract_page_markdown calls of this run
    saves,            \* history: the pages whose _save_cache call started
    saveFailed,       \* history: a _save_cache call of this run raised
    failedSaves,      \* history: the pages whose _save_cache call raised
    cache_at_start,   \* history: the cache file when this run reached line 79
    prev,             \* history: how the previous run ended
    call_args,        \* the arguments of a function called on its own
    return_value      \* the values such calls have returned

vars == <<pc, stopped_at, runs, args, cacheFile, outputFile,
          processed_pages, stats, page_num, result, attempt, last_error,
          raised, current_context, context_history, pages, final_markdown,
          pageLog, calls, saves, saveFailed, failedSaves, cache_at_start, prev,
          call_args, return_value>>

unitVars == <<call_args, return_value>>

\* everything but the two
vars_but_unit == <<pc, stopped_at, runs, args, cacheFile, outputFile,
                   processed_pages, stats, page_num, result, attempt, last_error,
                   raised, current_context, context_history, pages, final_markdown,
                   pageLog, calls, saves, saveFailed, failedSaves, cache_at_start, prev>>

\* no function has been called on its own
NoCall == <<"no call">>

diskVars == <<cacheFile, outputFile>>

contextVars == <<current_context, context_history>>

localVars == <<processed_pages, stats, page_num, result, attempt, last_error,
               raised, final_markdown>>

logVars == <<pageLog, calls, saves, saveFailed, failedSaves, cache_at_start>>

runVars == <<runs, args, prev>>

ActivePcs == {"validate", "load", "pages", "page", "attempt", "raised", "returned",
              "save_write", "add", "stitch", "write_open", "write", "report"}

NoPrev == [complete |-> FALSE, start_page |-> 0, end_page |-> 0,
           final |-> <<>>, cache |-> AbsentFile]

NoArgs == [start_page |-> 1, end_given |-> TRUE, end_page |-> 1, resume |-> TRUE]

NoStats == [total_pages |-> 0, processed |-> 0, cached |-> 0, errors |-> 0]

(***************************************************************************)
(* ContextManager                                                          *)
(***************************************************************************)

\* current_context and context_history after set_incomplete_text(text, page_number)
SetIncompleteText(history, text, page_number) ==
    [current |-> Strip(text),
     history |-> Append(history, [page |-> page_number, fragment |-> Strip(text)])]

\* faulty variant: clearing also forgets the transitions
ClearContextErases(history) == [current |-> None, history |-> <<>>]

\* after clear_context()
ClearContext(history) == [current |-> None, history |-> history]

\* faulty variant: the context is never handed to the next page
GetContextDropped == None

\* get_context_for_next_page()
GetContextForNextPage == current_context

(***************************************************************************)
(* The page cache                                                          *)
(***************************************************************************)

\* faulty variant: the lookup formats the page number differently from the store
LookupKeyPadded(n) == <<"0">> \o Str(n)

\* the key process_book looks a page up with (line 96)
LookupKey(n) == Str(n)

\* the key process_book stores a page under (line 109)
StoreKey(n) == Str(n)

\* faulty variant: the cache file is never read
LoadCacheIgnoresFile(file) == EmptyMap

\* _load_cache: no file, or a file json.load cannot read, is an empty mapping
LoadCache(file) == IF file.st = "ok" THEN file.data ELSE EmptyMap

\* the file after json.dump(data) ran to its end: string keys, and values of
\* str, bool and None, which json.load gives back as they were
DumpedFile(data) == [st |-> "ok", data |-> data]

\* data[key] = value
MapSet(data, key, value) ==
    [k \in (DOMAIN data) \cup {key} |-> IF k = key THEN value ELSE data[k]]

(***************************************************************************)
(* BookProcessor.process_book, one action per step                         *)
(***************************************************************************)

\* the state BookProcessor.__init__ leaves, and no run yet
Constructed ==
    /\ pc = "idle"
    /\ stopped_at = "none"
    /\ runs = 0
    /\ args = NoArgs
    /\ cacheFile = AbsentFile
    /\ outputFile = AbsentFile
    /\ processed_pages = EmptyMap
    /\ stats = NoStats
    /\ page_num = 0
    /\ result = NoResult
    /\ attempt = 0
    /\ last_error = NoError
    /\ raised = NoError
    /\ current_context = None
    /\ context_history = <<>>
    /\ pages = <<>>
    /\ final_markdown = <<>>
    /\ pageLog = <<>>
    /\ calls = <<>>
    /\ saves = <<>>
    /\ saveFailed = FALSE
    /\ failedSaves = {}
    /\ cache_at_start = AbsentFile
    /\ prev = NoPrev

Init ==
    /\ Constructed
    /\ call_args = NoCall
    /\ return_value = NoCall

\* the pages of this run that went to the Stitcher, from the cache or freshly
Handled == {i \in 1..Len(pageLog) : pageLog[i].how \in {"hit", "fresh"}}

\* history: the range, the output document and the cache file of the run that
\* just ended, when it returned with every page of its range in the Stitcher
\* and, with the same result, in the cache file
RunSummary ==
    IF /\ pc = "done"
       /\ \A n \in args.start_page..args.end_page :
              /\ cacheFile.st = "ok"
              /\ StoreKey(n) \in DOMAIN cacheFile.data
              /\ \E i \in Handled :
                     /\ pageLog[i].page = n
                     /\ pageLog[i].result = cacheFile.data[StoreKey(n)]
    THEN [complete   |-> TRUE,
          start_page |-> args.start_page,
          end_page   |-> args.end_page,
          final      |-> outputFile.data,
          cache      |-> cacheFile]
    ELSE NoPrev

ResetLocals ==
    /\ processed_pages' = EmptyMap
    /\ stats' = NoStats
    /\ page_num' = 0
    /\ result' = NoResult
    /\ attempt' = 0
    /\ last_error' = NoError
    /\ raised' = NoError
    /\ final_markdown' = <<>>
    /\ stopped_at' = "none"

ResetLogs ==
    /\ pageLog' = <<>>
    /\ calls' = <<>>
    /\ saves' = <<>>
    /\ saveFailed' = FALSE
    /\ failedSaves' = {}
    /\ cache_at_start' = AbsentFile

\* BookProcessor.__init__ in a new process, after the previous run ended. The
\* program never reads an output file, and the next call names its own
\* output_path: outputFile is the file at the output_path of the running call
NewProcessor ==
    /\ pc \in {"done", "failed", "interrupted"}
    /\ runs < MaxRuns
    /\ pc' = "idle"
    /\ current_context' = None
    /\ context_history' = <<>>
    /\ pages' = <<>>
    /\ prev' = RunSummary
    /\ args' = NoArgs
    /\ outputFile' = AbsentFile
    /\ ResetLocals
    /\ ResetLogs
    /\ UNCHANGED <<unitVars, runs, cacheFile>>

\* a call of process_book on a new BookProcessor (main, lines 138-160)
ProcessBook(start_page, end_given, end_page, resume) ==
    /\ pc = "idle"
    /\ runs < MaxRuns
    /\ pc' = "validate"
    /\ runs' = runs + 1
    /\ args' = [start_page |-> start_page, end_given |-> end_given,
                end_page |-> end_page, resume |-> resume]
    /\ UNCHANGED <<unitVars, stopped_at, prev, diskVars, localVars, contextVars, pages,
                   logVars>>

\* lines 69-76, validate_pdf is true: end_page defaults to get_page_count
ValidateOk ==
    /\ pc = "validate"
    /\ pc' = "load"
    /\ args' = [args EXCEPT !.end_given = TRUE,
                            !.end_page = IF args.end_given THEN @ ELSE NumPages]
    /\ UNCHANGED <<unitVars, stopped_at, runs, prev, diskVars, localVars,
                   contextVars, pages, logVars>>

\* faulty variant: the document is validated only after the cache was loaded
ValidateFailsAfterLoad ==
    /\ pc = "validate"
    /\ pc' = "failed"
    /\ stopped_at' = pc
    /\ raised' = [kind |-> "ValueError", attempt |-> 0]
    /\ processed_pages' = LoadCache(cacheFile)
    /\ cache_at_start' = cacheFile
    /\ UNCHANGED <<unitVars, runVars, diskVars, stats, page_num, result,
                   attempt, last_error, final_markdown, contextVars, pages,
                   pageLog, calls, saves, saveFailed, failedSaves>>

\* lines 69-70, validate_pdf is false: ValueError, raised outside the try
ValidateFails ==
    /\ pc = "validate"
    /\ pc' = "failed"
    /\ stopped_at' = pc
    /\ raised' = [kind |-> "ValueError", attempt |-> 0]
    /\ UNCHANGED <<unitVars, runVars, diskVars, processed_pages, stats, page_num, result,
                   attempt, last_error,
                   final_markdown, contextVars, pages, logVars>>

\* faulty variant: the exception of json.load is not caught, and process_book
\* raises it from line 79
LoadCacheStepUncaught ==
    /\ pc = "load"
    /\ IF args.resume /\ cacheFile.st = "partial"
       THEN /\ pc' = "failed"
            /\ stopped_at' = pc
            /\ raised' = [kind |-> "JSONDecodeError", attempt |-> 0]
            /\ UNCHANGED <<processed_pages, stats, page_num>>
       ELSE /\ pc' = "pages"
            /\ processed_pages' = IF args.resume THEN LoadCache(cacheFile) ELSE EmptyMap
            /\ stats' = [total_pages |-> args.end_page - args.start_page + 1,
                         processed   |-> 0,
                         cached      |-> Cardinality(DOMAIN processed_pages'),
                         errors      |-> 0]
            /\ page_num' = args.start_page - 1
            /\ UNCHANGED <<stopped_at, raised>>
    /\ cache_at_start' = cacheFile
    /\ UNCHANGED <<unitVars, runVars, diskVars, result, attempt, last_error,
                   final_markdown, contextVars, pages, pageLog, calls, saves,
                   saveFailed, failedSaves>>

\* lines 78-88
LoadCacheStep ==
    /\ pc = "load"
    /\ pc' = "pages"
    /\ processed_pages' = IF args.resume THEN LoadCache(cacheFile) ELSE EmptyMap
    /\ stats' = [total_pages |-> args.end_page - args.start_page + 1,
                 processed   |-> 0,
                 cached      |-> Cardinality(DOMAIN processed_pages'),
                 errors      |-> 0]
    /\ page_num' = args.start_page - 1
    /\ cache_at_start' = cacheFile
    /\ UNCHANGED <<unitVars, stopped_at, runVars, diskVars, result, attempt, last_error, raised,
                   final_markdown, contextVars, pages, pageLog, calls, saves,
                   saveFailed, failedSaves>>

\* extract_pages, lines 55-69: the next page of the range is converted and yielded
YieldPage ==
    /\ pc = "pages"
    /\ page_num + 1 <= args.end_page
    /\ page_num + 1 <= NumPages
    /\ page_num' = page_num + 1
    /\ pc' = "page"
    /\ UNCHANGED <<unitVars, stopped_at, runVars, diskVars, processed_pages, stats, result,
                   attempt, last_error, raised, final_markdown, contextVars, pages, logVars>>

\* extract_pages, lines 70-71: convert_from_path returns no image for a page
\* past the end of the document, and the page is not yielded
SkipPage ==
    /\ pc = "pages"
    /\ page_num + 1 <= args.end_page
    /\ page_num + 1 > NumPages
    /\ page_num' = page_num + 1
    /\ UNCHANGED <<unitVars, pc, stopped_at, runVars, diskVars, processed_pages, stats, result,
                   attempt, last_error, raised, final_markdown, contextVars, pages, logVars>>

\* extract_pages, lines 73-75: convert_from_path raises; the generator re-raises
\* into the for statement of process_book, whose handler (157-159) re-raises
PageSourceRaises ==
    /\ pc = "pages"
    /\ page_num + 1 <= args.end_page
    /\ pc' = "failed"
    /\ stopped_at' = pc
    /\ raised' = [kind |-> "page_source", attempt |-> 0]
    /\ UNCHANGED <<unitVars, runVars, diskVars, processed_pages, stats, page_num, result,
                   attempt, last_error,
                   final_markdown, contextVars, pages, logVars>>

\* faulty variant: range(start_page, end_page), which leaves the last page out
PagesDoneExclusive ==
    /\ pc = "pages"
    /\ page_num + 1 >= args.end_page
    /\ pc' = "stitch"
    /\ UNCHANGED <<unitVars, stopped_at, runVars, diskVars, localVars, contextVars, pages,
                   logVars>>

\* the range is exhausted: the for loop ends
PagesDone ==
    /\ pc = "pages"
    /\ page_num + 1 > args.end_page
    /\ pc' = "stitch"
    /\ UNCHANGED <<unitVars, stopped_at, runVars, diskVars, localVars, contextVars, pages,
                   logVars>>

\* lines 117-133 for result r: add_page, the context update, processed += 1
FinishPage(r, how) ==
    LET ctx == IF r.ends_incomplete /\ Truthy(r.incomplete_text)
               THEN SetIncompleteText(context_history, r.incomplete_text, page_num)
               ELSE ClearContext(context_history)
    IN  /\ pages' = Append(pages, [number |-> page_num, content |-> r.markdown])
        /\ current_context' = ctx.current
        /\ context_history' = ctx.history
        /\ stats' = [stats EXCEPT !.processed = @ + 1]
        /\ pageLog' = Append(pageLog, [page |-> page_num, how |-> how, result |-> r])
        /\ result' = NoResult
        /\ pc' = "pages"

\* lines 96-98, then 117-133: the page is in the mapping
CacheHit ==
    /\ pc = "page"
    /\ LookupKey(page_num) \in DOMAIN processed_pages
    /\ FinishPage(processed_pages[LookupKey(page_num)], "hit")
    /\ UNCHANGED <<unitVars, stopped_at, runVars, diskVars, processed_pages, page_num,
                   attempt, last_error, raised, final_markdown, calls, saves, saveFailed, failedSaves,
                   cache_at_start>>

\* lines 101-105 and 170-177: optimize_image returns and extract_page_markdown
\* is called with the current context
CallExtract ==
    /\ pc = "page"
    /\ LookupKey(page_num) \notin DOMAIN processed_pages
    /\ calls' = Append(calls, [page    |-> page_num,
                               context |-> GetContextForNextPage,
                               after   |-> Len(pageLog)])
    /\ attempt' = 0
    /\ last_error' = NoError
    /\ pc' = "attempt"
    /\ UNCHANGED <<unitVars, stopped_at, runVars, diskVars, processed_pages, stats, page_num,
                   result, raised, final_markdown, contextVars, pages, pageLog,
                   saves, saveFailed, failedSaves, cache_at_start>>

\* faulty variant: a failed page is skipped without being counted
PageFailedUncounted(how) ==
    /\ stats' = stats
    /\ pageLog' = Append(pageLog, [page |-> page_num, how |-> how, result |-> NoResult])
    /\ attempt' = 0
    /\ last_error' = NoError
    /\ raised' = NoError
    /\ pc' = "pages"

\* lines 111-115: result is None
PageFailed(how) ==
    /\ stats' = [stats EXCEPT !.errors = @ + 1]
    /\ pageLog' = Append(pageLog, [page |-> page_num, how |-> how, result |-> NoResult])
    /\ attempt' = 0
    /\ last_error' = NoError
    /\ raised' = NoError
    /\ pc' = "pages"

\* line 170 raises: _process_single_page returns None (181-183)
OptimizeFails ==
    /\ pc = "page"
    /\ LookupKey(page_num) \notin DOMAIN processed_pages
    /\ PageFailed("optimize_failed")
    /\ UNCHANGED <<unitVars, stopped_at, runVars, diskVars, processed_pages, page_num, result,
                   final_markdown, contextVars, pages, calls, saves, saveFailed, failedSaves,
                   cache_at_start>>

\* faulty variant: the call gives up one attempt early
LastAttemptEarly(n) == n >= MaxAttempts - 1

\* stop_after_attempt(3): the attempt that fails is the last one
LastAttempt(n) == n >= MaxAttempts

\* reraise=True: the exception of the last attempt, as it is
RaisedError(error) == error

\* one attempt of extract_page_markdown raises (lines 63-65); tenacity waits
\* and tries again, or re-raises after the last attempt
AttemptFails(kind) ==
    /\ pc = "attempt"
    /\ attempt' = attempt + 1
    /\ last_error' = [kind |-> kind, attempt |-> attempt']
    /\ IF LastAttempt(attempt')
       THEN /\ pc' = "raised"
            /\ raised' = RaisedError(last_error')
       ELSE /\ pc' = "attempt"
            /\ UNCHANGED raised
    /\ UNCHANGED <<unitVars, stopped_at, runVars, diskVars, processed_pages, stats, page_num,
                   result, final_markdown, contextVars, pages, logVars>>

\* one attempt returns the parsed response (lines 55-61)
AttemptSucceeds(response_text) ==
    /\ pc = "attempt"
    /\ attempt' = attempt + 1
    /\ result' = ParseResponse(response_text)
    /\ pc' = "returned"
    /\ UNCHANGED <<unitVars, stopped_at, runVars, diskVars, processed_pages, stats, page_num,
                   last_error, raised, final_markdown, contextVars, pages, logVars>>

\* lines 181-183 and 111-115: the exception of extract_page_markdown is caught
ExtractFailed ==
    /\ pc = "raised"
    /\ PageFailed("extract_failed")
    /\ UNCHANGED <<unitVars, stopped_at, runVars, diskVars, processed_pages, page_num, result,
                   final_markdown, contextVars, pages, calls, saves, saveFailed, failedSaves,
                   cache_at_start>>

\* lines 107-110 and 207: the result enters the mapping and _save_cache opens
\* the cache file for writing, which truncates it
CacheStore ==
    /\ pc = "returned"
    /\ processed_pages' = MapSet(processed_pages, StoreKey(page_num), result)
    /\ cacheFile' = PartialFile
    /\ saves' = Append(saves, page_num)
    /\ attempt' = 0
    /\ last_error' = NoError
    /\ pc' = "save_write"
    /\ UNCHANGED <<unitVars, stopped_at, runVars, outputFile, stats, page_num, result, raised,
                   final_markdown, contextVars, pages, pageLog, calls, saveFailed, failedSaves,
                   cache_at_start>>

\* faulty variant: the write is put off to a later, batched save
SaveCacheDeferred ==
    /\ pc = "save_write"
    /\ pc' = "add"
    /\ UNCHANGED <<unitVars, stopped_at, runVars, diskVars, localVars, contextVars, pages,
                   logVars>>

\* line 208: json.dump writes the whole mapping
SaveCacheOk ==
    /\ pc = "save_write"
    /\ cacheFile' = DumpedFile(processed_pages)
    /\ pc' = "add"
    /\ UNCHANGED <<unitVars, stopped_at, runVars, outputFile, localVars, contextVars, pages,
                   logVars>>

\* faulty variant: a page whose save failed is taken out of the mapping again
SaveCacheFailsForgets ==
    /\ pc = "save_write"
    /\ saveFailed' = TRUE
    /\ failedSaves' = failedSaves \cup {page_num}
    /\ processed_pages' = [k \in DOMAIN processed_pages \ {StoreKey(page_num)}
                               |-> processed_pages[k]]
    /\ pc' = "add"
    /\ UNCHANGED <<unitVars, stopped_at, runVars, diskVars, stats, page_num, result,
                   attempt, last_error, raised, final_markdown, contextVars, pages,
                   pageLog, calls, saves, cache_at_start>>

\* lines 209-210: the write raises (disk full), which is logged and swallowed
SaveCacheFails ==
    /\ pc = "save_write"
    /\ saveFailed' = TRUE
    /\ failedSaves' = failedSaves \cup {page_num}
    /\ pc' = "add"
    /\ UNCHANGED <<unitVars, stopped_at, runVars, diskVars, localVars, contextVars, pages,
                   pageLog, calls, saves, cache_at_start>>

\* lines 109-110 and 206, 209-210: the page is stored in the mapping and
\* open(cache_file, 'w') itself raises (no permission, no space for a new
\* file), which is logged and swallowed: the file stays as it was
SaveCacheOpenFails ==
    /\ pc = "returned"
    /\ processed_pages' = MapSet(processed_pages, StoreKey(page_num), result)
    /\ saves' = Append(saves, page_num)
    /\ saveFailed' = TRUE
    /\ failedSaves' = failedSaves \cup {page_num}
    /\ attempt' = 0
    /\ last_error' = NoError
    /\ pc' = "add"
    /\ UNCHANGED <<unitVars, stopped_at, runVars, diskVars, stats, page_num, result,
                   raised, final_markdown, contextVars, pages, pageLog, calls,
                   cache_at_start>>

\* lines 117-133 for a freshly extracted page
AddPage ==
    /\ pc = "add"
    /\ FinishPage(result, "fresh")
    /\ UNCHANGED <<unitVars, stopped_at, runVars, diskVars, processed_pages, page_num,
                   attempt, last_error, raised, final_markdown, calls, saves, saveFailed, failedSaves,
                   cache_at_start>>

\* line 137: stitch_all, which sorts self.pages in place
Stitch ==
    /\ pc = "stitch"
    /\ pages' = SortPages(pages)
    /\ final_markdown' = StitchAll(pages)
    /\ pc' = "write_open"
    /\ UNCHANGED <<unitVars, stopped_at, runVars, diskVars, processed_pages, stats, page_num,
                   result, attempt, last_error, raised, contextVars, logVars>>

\* lines 214-217: the output file is opened for writing, which truncates it
OpenOutput ==
    /\ pc = "write_open"
    /\ outputFile' = PartialFile
    /\ pc' = "write"
    /\ UNCHANGED <<unitVars, stopped_at, runVars, cacheFile, localVars, contextVars, pages,
                   logVars>>

\* line 218
WriteOutput ==
    /\ pc = "write"
    /\ outputFile' = [st |-> "ok", data |-> final_markdown]
    /\ pc' = "report"
    /\ UNCHANGED <<unitVars, stopped_at, runVars, cacheFile, localVars, contextVars, pages,
                   logVars>>

\* mkdir, open or write raises: the handler of lines 157-159 re-raises
OutputFails ==
    /\ pc \in {"write_open", "write"}
    /\ pc' = "failed"
    /\ stopped_at' = pc
    /\ raised' = [kind |-> "output", attempt |-> 0]
    /\ UNCHANGED <<unitVars, runVars, diskVars, processed_pages, stats, page_num, result,
                   attempt, last_error,
                   final_markdown, contextVars, pages, logVars>>

\* faulty variant: the figures of the Stitcher do not replace those of the run
ReportKeepsRequested ==
    /\ pc = "report"
    /\ stats' = stats @@ GetStats(pages)
                    @@ [context_transitions |-> Len(context_history)]
    /\ pc' = "done"
    /\ UNCHANGED <<unitVars, stopped_at, runVars, diskVars, processed_pages, page_num, result,
                   attempt, last_error, raised, final_markdown, contextVars, pages, logVars>>

\* lines 142-151
Report ==
    /\ pc = "report"
    /\ stats' = [context_transitions |-> Len(context_history)]
                    @@ GetStats(pages) @@ stats
    /\ pc' = "done"
    /\ UNCHANGED <<unitVars, stopped_at, runVars, diskVars, processed_pages, page_num, result,
                   attempt, last_error, raised, final_markdown, contextVars, pages, logVars>>

\* KeyboardInterrupt, or the process is killed: process_book stops where it
\* is (lines 153-156 only log and re-raise)
Interrupt ==
    /\ pc \in ActivePcs
    /\ pc' = "interrupted"
    /\ stopped_at' = pc
    /\ raised' = [kind |-> "KeyboardInterrupt", attempt |-> 0]
    /\ UNCHANGED <<unitVars, runVars, diskVars, processed_pages, stats, page_num, result,
                   attempt, last_error,
                   final_markdown, contextVars, pages, logVars>>

\* the page ranges a caller asks for
StartPages == 1..NumPages

EndPages == 1..(NumPages + 1)

Next ==
    \/ NewProcessor
    \/ \E start_page \in StartPages, end_page \in EndPages, resume \in BOOLEAN :
           /\ start_page <= end_page
           /\ ProcessBook(start_page, TRUE, end_page, resume)
    \/ \E start_page \in StartPages, resume \in BOOLEAN :
           ProcessBook(start_page, FALSE, 0, resume)
    \/ ValidateOk
    \/ ValidateFails
    \/ LoadCacheStep
    \/ YieldPage
    \/ SkipPage
    \/ PageSourceRaises
    \/ PagesDone
    \/ CacheHit
    \/ CallExtract
    \/ OptimizeFails
    \/ \E kind \in ErrorKinds : AttemptFails(kind)
    \/ \E response_text \in Responses : AttemptSucceeds(response_text)
    \/ ExtractFailed
    \/ CacheStore
    \/ SaveCacheOk
    \/ SaveCacheFails
    \/ SaveCacheOpenFails
    \/ AddPage
    \/ Stitch
    \/ OpenOutput
    \/ WriteOutput
    \/ OutputFails
    \/ Report
    \/ Interrupt

Spec == Init /\ [][Next]_vars

(***************************************************************************)
(* Properties                                                              *)
(***************************************************************************)

\* where the run is, or was when it was interrupted or failed
Position == IF pc \in {"interrupted", "failed"} THEN stopped_at ELSE pc

\* the page loop has ended normally
LoopFinished == pc \in {"stitch", "write_open", "write", "report", "done"}

\* the mapping _load_cache read from the cache file at the start of this run
LoadedAtStart == LoadCache(cache_at_start)

LogIndexes(how) == {i \in 1..Len(pageLog) : pageLog[i].how = how}

CalledPages == {calls[i].page : i \in 1..Len(calls)}

StrictlyIncreasing(seq) == \A i, j \in 1..Len(seq) : i < j => seq[i] < seq[j]

\* the entries of pageLog that went to the Stitcher, in order
HandledLog(log) == SelectSeq(log, LAMBDA e : e.how \in {"hit", "fresh"})

EndsIncomplete(r) == r.ends_incomplete /\ Truthy(r.incomplete_text)

\* the entries among them whose result ends incomplete with a fragment
IncompleteLog(log) == SelectSeq(HandledLog(log), LAMBDA e : EndsIncomplete(e.result))

SameRangeAsPrev ==
    /\ prev.complete
    /\ args.resume
    /\ args.end_given
    /\ args.start_page = prev.start_page
    /\ args.end_page = prev.end_page

\* C1: after a run that returned with every page of its range extracted and in
\* the cache file, a run of a new process on the same range with resume=true
\* makes no extract call, never changes the cache file, and writes the same
\* document as the first run.
C1_ResumeIdempotent ==
    (SameRangeAsPrev /\ pc # "idle") =>
        /\ calls = <<>>
        /\ saves = <<>>
        /\ cacheFile = prev.cache
        /\ pc = "done" => (outputFile.st = "ok" /\ outputFile.data = prev.final)

C1_Witness ==
    /\ SameRangeAsPrev
    /\ pc = "done"
    /\ Len(pageLog) = NumPages
    /\ calls = <<>>
    /\ outputFile.data = prev.final
    /\ prev.final # <<>>

\* the faults of this run are failed extract calls only
OnlyExtractionFaults ==
    /\ ~saveFailed
    /\ LogIndexes("optimize_failed") = {}
    /\ args.end_page <= NumPages

\* C2: in a run that starts from an empty cache and whose only faults are k
\* failed extract calls, every page of the range is visited, no extraction
\* error ends the run, and once the loop is over errors = k and the cache
\* file holds exactly the N-k pages that were extracted.
C2_PartialFailure ==
    /\ pc = "failed" => raised.kind \notin ErrorKinds
    /\ (LoopFinished /\ LoadedAtStart = EmptyMap /\ OnlyExtractionFaults) =>
           LET N == args.end_page - args.start_page + 1
               k == Cardinality(LogIndexes("extract_failed"))
           IN  /\ {pageLog[i].page : i \in 1..Len(pageLog)}
                      = args.start_page..args.end_page
               /\ stats.errors = k
               /\ stats.processed = N - k
               /\ DOMAIN LoadCache(cacheFile)
                      = {Str(pageLog[i].page) : i \in LogIndexes("fresh")}
               /\ Cardinality(DOMAIN LoadCache(cacheFile)) = N - k

C2_Witness ==
    /\ pc = "done"
    /\ LoadedAtStart = EmptyMap
    /\ OnlyExtractionFaults
    /\ args.start_page = 1
    /\ args.end_page = NumPages
    /\ pageLog[1].how = "extract_failed"
    /\ stats.errors = 1
    /\ Cardinality(DOMAIN LoadCache(cacheFile)) = NumPages - 1

\* C3: right after the step of a page whose result ends incomplete with a
\* non-empty fragment, the current context is that fragment trimmed; and the
\* extract call for the next page yielded receives exactly that fragment.
C3_ContextCorrect ==
    /\ (pc = "pages" /\ pageLog # <<>>
            /\ pageLog[Len(pageLog)].how \in {"hit", "fresh"}
            /\ EndsIncomplete(pageLog[Len(pageLog)].result)) =>
           current_context = Strip(pageLog[Len(pageLog)].result.incomplete_text)
    /\ \A i \in 1..Len(calls) :
           (calls[i].after > 0
                /\ pageLog[calls[i].after].how \in {"hit", "fresh"}
                /\ EndsIncomplete(pageLog[calls[i].after].result)) =>
               calls[i].context = Strip(pageLog[calls[i].after].result.incomplete_text)

C3_Witness ==
    \E i \in 1..Len(calls) :
        /\ calls[i].after > 0
        /\ EndsIncomplete(pageLog[calls[i].after].result)
        /\ calls[i].context = <<"b">>
        /\ pc = "done"

\* C4: in a resumed run, a page whose number as a string is a key of the
\* loaded cache gets no extract call, keeps its cache entry, and its cached
\* result goes to the Stitcher and the Context Tracker as a fresh one does;
\* a page that is not in the loaded cache goes to extraction.
C4_CacheHitPerPage ==
    (args.resume /\ pc # "idle") =>
        /\ \A i \in 1..Len(pageLog) :
               LET key == Str(pageLog[i].page)
               IN  IF key \in DOMAIN LoadedAtStart
                   THEN /\ pageLog[i].how = "hit"
                        /\ pageLog[i].result = LoadedAtStart[key]
                        /\ pageLog[i].page \notin CalledPages
                        /\ processed_pages[key] = LoadedAtStart[key]
                        /\ cacheFile.st = "ok" => cacheFile.data[key] = LoadedAtStart[key]
                   ELSE /\ pageLog[i].how # "hit"
                        /\ pageLog[i].how # "optimize_failed"
                               => pageLog[i].page \in CalledPages
        /\ LET handled == HandledLog(pageLog)
           IN  /\ pages = [i \in 1..Len(handled) |->
                              [number  |-> handled[i].page,
                               content |-> handled[i].result.markdown]]
               /\ context_history
                      = [i \in 1..Len(IncompleteLog(pageLog)) |->
                            [page     |-> IncompleteLog(pageLog)[i].page,
                             fragment |->
                                 Strip(IncompleteLog(pageLog)[i].result.incomplete_text)]]
               /\ (pc = "pages" /\ handled # <<>>
                       /\ pageLog[Len(pageLog)].how = "hit") =>
                      current_context =
                          IF EndsIncomplete(handled[Len(handled)].result)
                          THEN Strip(handled[Len(handled)].result.incomplete_text)
                          ELSE None

C4_Witness ==
    /\ args.resume
    /\ pc = "done"
    /\ LogIndexes("hit") # {}
    /\ LogIndexes("fresh") # {}
    /\ \E i \in LogIndexes("hit") : EndsIncomplete(pageLog[i].result)

C6_CacheIntactWhenInterrupted ==
    pc = "interrupted" => cacheFile.st \in {"absent", "ok"}

ParsedResponses == {ParseResponse(r) : r \in Responses}

\* C7: an extract call makes between 1 and 3 attempts; it tries again after a
\* failed attempt of any kind that is not the third; it returns at the first
\* successful attempt with the parsed response; after a third failure it
\* raises the exception of that third attempt.
C7_RetryStep ==
    /\ pc = "attempt" => attempt < MaxAttempts
    /\ (pc = "attempt" /\ last_error' # last_error /\ attempt' < MaxAttempts)
           => pc' = "attempt"
    /\ (pc = "attempt" /\ pc' = "attempt") =>
           /\ attempt' = attempt + 1
           /\ last_error'.attempt = attempt'
           /\ last_error'.kind \in ErrorKinds
    /\ (pc = "attempt" /\ pc' = "returned") =>
           /\ attempt' \in 1..MaxAttempts
           /\ last_error.attempt = attempt' - 1
           /\ result' \in ParsedResponses
    /\ (pc = "attempt" /\ pc' = "raised") =>
           /\ attempt' = MaxAttempts
           /\ raised' = last_error'
           /\ raised'.attempt = MaxAttempts
           /\ raised'.kind \in ErrorKinds
    /\ pc = "returned" => pc' # "attempt"

C7_RetryPolicy == [][C7_RetryStep]_vars

C7_Witness ==
    /\ pc = "raised"
    /\ attempt = MaxAttempts
    /\ raised = [kind |-> "blocked", attempt |-> MaxAttempts]

\* C8: the output file is written only after the page loop has ended and
\* stitch_all has run, and a run that is interrupted or fails has written
\* no output file.
C8_RunStateOrder ==
    /\ outputFile.st # "absent" =>
           /\ Position \in {"write", "report", "done"}
           /\ page_num >= args.end_page
    /\ pc \in {"interrupted", "failed"} => outputFile.st = "absent"

\* C9: the pages yielded, the extract calls, the cache saves, the Stitcher
\* adds and the context updates of a run each follow strictly increasing page
\* numbers within the range, and when the loop ends every page of the range
\* that the document has was yielded exactly once.
C9_PageOrdering ==
    /\ StrictlyIncreasing([i \in 1..Len(pageLog) |-> pageLog[i].page])
    /\ StrictlyIncreasing([i \in 1..Len(calls) |-> calls[i].page])
    /\ StrictlyIncreasing(saves)
    /\ StrictlyIncreasing([i \in 1..Len(pages) |-> pages[i].number])
    /\ StrictlyIncreasing([i \in 1..Len(context_history) |-> context_history[i].page])
    /\ \A i \in 1..Len(pageLog) :
           pageLog[i].page \in args.start_page..args.end_page
    /\ {saves[i] : i \in 1..Len(saves)} \subseteq CalledPages
    /\ CalledPages \subseteq
           {pageLog[i].page : i \in 1..Len(pageLog)} \cup {page_num}
    /\ {pages[i].number : i \in 1..Len(pages)}
           = {pageLog[i].page : i \in Handled}
    /\ LoopFinished =>
           {pageLog[i].page : i \in 1..Len(pageLog)}
               = {n \in args.start_page..args.end_page : n <= NumPages}

C9_Witness ==
    /\ pc = "done"
    /\ Len(pageLog) = NumPages
    /\ Len(calls) = NumPages
    /\ Len(saves) = NumPages
    /\ Len(pages) = NumPages
    /\ Len(context_history) = NumPages

\* C10: once page iteration has started, no error of a single page ends the
\* run: a run fails only outside the page loop.
C10_PerPageErrorsContained ==
    pc = "failed" => stopped_at \notin {"pages", "page", "attempt", "raised"}

\* the state of a run that ended in the ValueError of line 70
ValidationAborted == pc = "failed" /\ raised.kind = "ValueError"

C11_NoPageWork ==
    ValidationAborted =>
        /\ stopped_at = "validate"
        /\ calls = <<>>
        /\ saves = <<>>
        /\ pageLog = <<>>
        /\ cache_at_start = AbsentFile
        /\ processed_pages = EmptyMap
        /\ pages = <<>>
        /\ current_context = None
        /\ context_history = <<>>
        /\ outputFile = AbsentFile

C11_AbortStep ==
    (pc = "validate" /\ pc' = "failed") =>
        UNCHANGED <<cacheFile, outputFile, pages, contextVars, processed_pages>>

\* C11: when validate_pdf is false, process_book raises ValueError before any
\* page work: no extract call, the cache file neither read (line 79 is not
\* reached) nor written, the Stitcher and the Context Tracker as they were,
\* and no output file.
C11_ValidationAbort == []C11_NoPageWork /\ [][C11_AbortStep]_vars

\* a later run, with a cache file on disk, whose document fails validation
C11_Witness ==
    /\ ValidationAborted
    /\ cacheFile.st = "ok"
    /\ runs = MaxRuns

(***************************************************************************)
(* BookProcessor._get_cache_file, called for two documents                 *)
(***************************************************************************)

\* the sequences over S of length at most n
SeqsUpTo(S, n) == UNION {[1..k -> S] : k \in 0..n}

\* the longest directory-and-stem part of a document path
MaxPathLen == 3

PathChars == {"a", "b", "/"}

\* validate_pdf accepts a path whose lower-cased form ends with '.pdf'
PdfSuffixes == {<<".", "p", "d", "f">>, <<".", "P", "D", "F">>}

\* the paths of documents validate_pdf can accept
PdfPaths == {p \o x : p \in SeqsUpTo(PathChars, MaxPathLen), x \in PdfSuffixes}

\* str.rfind(c): the 0-based index of the last c in s, or -1
RECURSIVE RFind(_, _)
RFind(s, c) ==
    IF s = <<>> THEN -1
    ELSE IF s[Len(s)] = c THEN Len(s) - 1
    ELSE RFind(SubSeq(s, 1, Len(s) - 1), c)

\* PurePath.name: the final component of the path
PathName(pdf_path) == Slice(pdf_path, RFind(pdf_path, "/") + 1, Len(pdf_path))

\* PurePath.stem: the final component without its last suffix
PathStem(pdf_path) ==
    LET name == PathName(pdf_path)
        i    == RFind(name, ".")
    IN  IF 0 < i /\ i < Len(name) - 1 THEN Slice(name, 0, i) ELSE name

\* the cache_dir of the constructor, './cache' by default
CacheDir == <<"c", "a", "c", "h", "e">>

CacheFileSuffix == <<"_", "c", "a", "c", "h", "e", ".", "j", "s", "o", "n">>

\* _get_cache_file(pdf_path)
GetCacheFile(pdf_path) == CacheDir \o <<"/">> \o PathStem(pdf_path) \o CacheFileSuffix

\* the components of a path. Two relative paths, or two absolute ones, with
\* different components name different files
PathParts(pdf_path) ==
    LET parts == Split(pdf_path, "/")
    IN  SelectSeq(parts, LAMBDA c : c # <<>>)

DifferentDocuments(path1, path2) == PathParts(path1) # PathParts(path2)

InitKey ==
    /\ Constructed
    /\ call_args \in PdfPaths \X PdfPaths
    /\ return_value = <<>>

\* one process after the other computes the cache file of its document
GetCacheFileCall ==
    /\ Len(return_value) < Len(call_args)
    /\ return_value' = Append(return_value, GetCacheFile(call_args[Len(return_value) + 1]))
    /\ UNCHANGED <<vars_but_unit, call_args>>

NextKey == GetCacheFileCall

SpecKey == InitKey /\ [][NextKey]_vars

\* C12: the cache file is a function of the document path, and the cache
\* files of two different documents are different files.
C12_DistinctNeverCollide ==
    (Len(return_value) = 2 /\ DifferentDocuments(call_args[1], call_args[2])) =>
        return_value[1] # return_value[2]

\* this run was asked to resume and found no cache file, or one json.load
\* cannot read
ResumedWithoutCache ==
    /\ Position \notin {"idle", "validate", "load"}
    /\ args.resume
    /\ cache_at_start.st # "ok"

\* C13: a run with resume=true whose cache file is missing or unreadable
\* does not fail at the load: it starts from an empty mapping, counts no
\* cached page, takes no page from the cache, and once its loop is over it
\* has sent every page of the range to extraction.
C13_CacheReadFailureNotFatal ==
    /\ (pc = "failed" /\ args.resume) => stopped_at # "load"
    /\ ResumedWithoutCache =>
           /\ LoadedAtStart = EmptyMap
           /\ stats.cached = 0
           /\ LogIndexes("hit") = {}
           /\ \A i \in 1..Len(pageLog) :
                  pageLog[i].how \in {"fresh", "extract_failed"}
                      => pageLog[i].page \in CalledPages
           /\ DOMAIN processed_pages \subseteq {Str(n) : n \in CalledPages}
           /\ LoopFinished =>
                  {pageLog[i].page : i \in 1..Len(pageLog)}
                      = {n \in args.start_page..args.end_page : n <= NumPages}

\* a resumed run that found a truncated cache file and extracted every page
C13_Witness ==
    /\ ResumedWithoutCache
    /\ cache_at_start.st = "partial"
    /\ pc = "done"
    /\ CalledPages = 1..NumPages
    /\ LogIndexes("fresh") = 1..NumPages

\* the step of page p is over: p is no longer the page being stored or added
PageStepOver(p) == ~(page_num = p /\ Position \in {"save_write", "add"})

\* a _save_cache call that started after the one of page p has succeeded
SavedLater(p) ==
    \E i \in 1..Len(saves) :
        /\ saves[i] > p
        /\ saves[i] \notin failedSaves
        /\ ~(page_num = saves[i] /\ Position = "save_write")

\* the run goes on after the failed save of page p: the page is stitched,
\* counted and used for the context, and stays in the mapping of the run
ContinuesAfterFailedSave(p) ==
    /\ pc = "failed" => stopped_at \notin {"returned", "save_write", "add"}
    /\ StoreKey(p) \in DOMAIN processed_pages
    /\ PageStepOver(p) =>
           /\ \E i \in LogIndexes("fresh") :
                  /\ pageLog[i].page = p
                  /\ pageLog[i].result = processed_pages[StoreKey(p)]
                  /\ i = Len(pageLog) =>
                         current_context =
                             IF EndsIncomplete(pageLog[i].result)
                             THEN Strip(pageLog[i].result.incomplete_text)
                             ELSE None
           /\ \E j \in 1..Len(pages) :
                  /\ pages[j].number = p
                  /\ pages[j].content = processed_pages[StoreKey(p)].markdown
           /\ stats.processed = Cardinality(Handled)

RECURSIVE Concat(_)
Concat(parts) == IF parts = <<>> THEN <<>> ELSE Head(parts) \o Concat(Tail(parts))

\* the strings made of at most n pieces of the set tokens
TextsOf(tokens, n) == {Concat(parts) : parts \in SeqsUpTo(tokens, n)}

\* the pieces a raw response is made of
MaxTokens == 3

\* the pieces of the interior of a fenced block, and of a fragment
MaxInterior == 2

MaxFragment == 2

ResponseTokens ==
    {FenceMd, Fence, EolTag, IncompleteTag, CloseBrace, <<"a">>, <<" ">>, <<"\n">>}

InteriorTokens == {EolTag, IncompleteTag, CloseBrace, <<"a">>, <<" ">>, <<"\n">>}

FragmentTokens == {<<"a">>, <<"b">>, <<" ">>}

\* the response the prompt asks for (lines 85-92): a fenced markdown block,
\* then the {EOL} line if the page is cut off, then the {INCOMPLETE: ...} line
FencedResponse(interior, fragment, eol) ==
    FenceMd \o <<"\n">> \o interior \o <<"\n">> \o Fence
        \o (IF eol THEN <<"\n">> \o EolTag ELSE <<>>)
        \o <<"\n">> \o IncompleteTag \o fragment \o CloseBrace

\* the texts _parse_response is called with, each with the way it was built
ParseInputs ==
    {[response_text |-> t, built |-> <<"pieces">>] : t \in TextsOf(ResponseTokens, MaxTokens)}
    \cup
    {[response_text |-> FencedResponse(m, f, eol), built |-> <<"fenced", m, f, eol>>] :
         m \in TextsOf(InteriorTokens, MaxInterior),
         f \in TextsOf(FragmentTokens, MaxFragment),
         eol \in BOOLEAN}

InitParse ==
    /\ Constructed
    /\ call_args \in ParseInputs
    /\ return_value = <<>>

ParseResponseCall ==
    /\ return_value = <<>>
    /\ return_value' = <<ParseResponse(call_args.response_text)>>
    /\ UNCHANGED <<vars_but_unit, call_args>>

NextParse == ParseResponseCall

SpecParse == InitParse /\ [][NextParse]_vars

\* C15: every result of _parse_response with ends_incomplete true has an
\* incomplete_text that is present and not empty.
C15_PageResultInvariant ==
    (return_value # <<>> /\ return_value[1].ends_incomplete) =>
        /\ return_value[1].incomplete_text # None
        /\ return_value[1].incomplete_text # <<>>

Parsed(kind) == return_value # <<>> /\ call_args.built[1] = kind

\* C16 as stated: for a fenced block with interior M, then {EOL}, then
\* {INCOMPLETE: F}, the result is M trimmed, true, F trimmed; without the
\* {EOL} line, false and no fragment.
C16_ParseFencedAsStated ==
    Parsed("fenced") =>
        LET m   == call_args.built[2]
            f   == call_args.built[3]
            eol == call_args.built[4]
        IN  /\ return_value[1].markdown = Strip(m)
            /\ return_value[1].ends_incomplete = eol
            /\ return_value[1].incomplete_text = IF eol THEN Strip(f) ELSE None

\* C16, amended: the markdown is M without its {EOL} tokens, trimmed, which
\* is M trimmed when M holds none; ends_incomplete is true exactly when {EOL}
\* is anywhere in the raw text, the interior included; the fragment is F
\* trimmed when ends_incomplete is true and M holds no {INCOMPLETE: token,
\* and absent when ends_incomplete is false.
C16_ParseFenced ==
    Parsed("fenced") =>
        LET m   == call_args.built[2]
            f   == call_args.built[3]
            eol == call_args.built[4]
        IN  /\ return_value[1].markdown = Strip(Replace(Strip(m), EolTag, <<>>))
            /\ ~Contains(m, EolTag) => return_value[1].markdown = Strip(m)
            /\ return_value[1].ends_incomplete = (eol \/ Contains(m, EolTag))
            /\ (return_value[1].ends_incomplete /\ ~Contains(m, IncompleteTag))
                   => return_value[1].incomplete_text = Strip(f)
            /\ ~return_value[1].ends_incomplete => return_value[1].incomplete_text = None

\* the response of the prompt's format, with blanks around the fragment
C16_Witness ==
    /\ Parsed("fenced")
    /\ call_args.built = <<"fenced", <<" ", "a">>, <<" ", "b">>, TRUE>>
    /\ return_value = <<[markdown |-> <<"a">>, ends_incomplete |-> TRUE,
                         incomplete_text |-> <<"b">>]>>

(***************************************************************************)
(* ContextManager.detect_incomplete_text, called on page texts             *)
(***************************************************************************)

\* the characters after which the last line is taken as complete (line 105)
EndPunctuation == {".", "!", "?", ",", ";", ":", ")", "\"", "'"}

\* str.isalpha for the characters of the model
AlphaChars == {UpperChars[i] : i \in 1..Len(UpperChars)}
                  \cup {LowerChars[i] : i \in 1..Len(LowerChars)}

\* len(last_word) < 15 (line 116)
FragmentMaxLen == 15

\* lines[-1].strip() of markdown.strip().split('\n')
LastLine(markdown) ==
    LET lines == Split(Strip(markdown), "\n")
    IN  Strip(lines[Len(lines)])

\* last_line.split()[-1] of a line that does not end in whitespace: the
\* characters after its last whitespace
RECURSIVE LastWord(_)
LastWord(last_line) ==
    IF last_line = <<>> THEN <<>>
    ELSE IF last_line[Len(last_line)] \in WS THEN <<>>
    ELSE Append(LastWord(SubSeq(last_line, 1, Len(last_line) - 1)),
                last_line[Len(last_line)])

DetectIncompleteText(markdown) ==
    IF markdown = <<>> THEN <<FALSE, None>>
    ELSE LET last_line == LastLine(markdown)
             last_word == LastWord(last_line)
         IN  IF last_line = <<>> THEN <<FALSE, None>>
             ELSE IF last_line[Len(last_line)] \in EndPunctuation THEN <<FALSE, None>>
             ELSE IF /\ Len(last_word) < FragmentMaxLen
                     /\ last_word[Len(last_word)] \in AlphaChars
                     /\ Contains(last_word, <<"-">>)
                  THEN <<TRUE, last_word>>
                  ELSE <<FALSE, None>>

\* the pieces a page text is made of
MaxPieces == 4

\* a word of 13 letters: with a hyphen and a letter it has 15 characters
LongWord == [i \in 1..13 |-> "a"]

TextPieces == {<<"a">>, <<"-">>, <<".">>, <<" ">>, <<"\n">>, LongWord}

InitDetect ==
    /\ Constructed
    /\ call_args \in TextsOf(TextPieces, MaxPieces)
    /\ return_value = <<>>

DetectIncompleteTextCall ==
    /\ return_value = <<>>
    /\ return_value' = <<DetectIncompleteText(call_args)>>
    /\ UNCHANGED <<vars_but_unit, call_args>>

NextDetect == DetectIncompleteTextCall

SpecDetect == InitDetect /\ [][NextDetect]_vars

\* a short token broken at a hyphen, as "break-" is
BrokenAtHyphen(word) ==
    /\ Len(word) >= 2
    /\ Len(word) < FragmentMaxLen
    /\ word[Len(word)] = "-"
    /\ word[Len(word) - 1] \in AlphaChars

\* C17: a text whose last non-blank line ends with a short token broken at a
\* hyphen gives (true, that token); a text whose last line ends in one of the
\* punctuation marks gives (false, None).
C17_FallbackDetect ==
    (return_value # <<>> /\ Strip(call_args) # <<>>) =>
        LET last_line == LastLine(call_args)
        IN  /\ BrokenAtHyphen(LastWord(last_line))
                => return_value[1] = <<TRUE, LastWord(last_line)>>
            /\ last_line[Len(last_line)] \in EndPunctuation
                => return_value[1] = <<FALSE, None>>

(***************************************************************************)
(* MarkdownStitcher: add_page calls in any order, then stitch_all          *)
(***************************************************************************)

\* the add_page calls made before stitch_all
MaxAdds == 3

\* the page numbers they are made with
MaxPageNumber == 2

HeadingLine == <<"#", " ", "T">>

TextLine == <<"y">>

\* the page texts: a heading, a line of text, the two in either order, and
\* the empty markdown of a response with an empty block
PageTexts ==
    {<<>>, HeadingLine, TextLine,
     HeadingLine \o <<"\n">> \o TextLine,
     TextLine \o <<"\n">> \o HeadingLine}

vars_but_stitcher == <<pc, stopped_at, runs, args, cacheFile, outputFile,
                       processed_pages, stats, page_num, result, attempt, last_error,
                       raised, current_context, context_history, final_markdown,
                       pageLog, calls, saves, saveFailed, failedSaves, cache_at_start,
                       prev>>

\* call_args is the sequence of the add_page calls made
InitStitch ==
    /\ Constructed
    /\ call_args = <<>>
    /\ return_value = <<>>

\* add_page(markdown, page_number), lines 22-28
AddPageCall(markdown, page_number) ==
    /\ return_value = <<>>
    /\ Len(pages) < MaxAdds
    /\ pages' = Append(pages, [number |-> page_number, content |-> markdown])
    /\ call_args' = Append(call_args, [number |-> page_number, content |-> markdown])
    /\ UNCHANGED <<vars_but_stitcher, return_value>>

\* stitch_all(), lines 30-75, which sorts self.pages in place
StitchAllCall ==
    /\ return_value = <<>>
    /\ pages' = SortPages(pages)
    /\ return_value' = <<StitchAll(pages)>>
    /\ UNCHANGED <<vars_but_stitcher, call_args>>

NextStitch ==
    \/ \E markdown \in PageTexts, page_number \in 1..MaxPageNumber :
           AddPageCall(markdown, page_number)
    \/ StitchAllCall

SpecStitch == InitStitch /\ [][NextStitch]_vars

\* the lines of a text that are the heading
HeadingCount(text) ==
    LET lines == Split(text, "\n")
    IN  Cardinality({k \in 1..Len(lines) : Strip(lines[k]) = HeadingLine})

\* the last line of the cleaned page i - 1 and the first line of the cleaned
\* page i are the same heading
SameHeadingAtJoin(i) ==
    LET previous == CleanPageContent(pages[i - 1].content)
        current  == CleanPageContent(pages[i].content)
        prevs    == Split(previous, "\n")
        lines    == Split(current, "\n")
    IN  /\ previous # <<>>
        /\ current # <<>>
        /\ IsHeader(Strip(prevs[Len(prevs)]))
        /\ IsHeader(Strip(lines[1]))
        /\ Strip(prevs[Len(prevs)]) = Strip(lines[1])

\* C18: at every boundary where the previous page ends with the heading the
\* current page starts with, stitch_all drops the first line of the current
\* page, so that the document holds the heading once for the join: one
\* heading line less than the pages hold, for every such boundary.
C18_HeaderDedup ==
    return_value # <<>> =>
        LET joins  == {i \in 2..Len(pages) : SameHeadingAtJoin(i)}
            pieces == StitchPages(pages, 1, <<>>)
            held   == [i \in 1..Len(pages) |->
                           HeadingCount(CleanPageContent(pages[i].content))]
            RECURSIVE Sum(_)
            Sum(i) == IF i = 0 THEN 0 ELSE held[i] + Sum(i - 1)
        IN  /\ \A i \in joins :
                   pieces[i] = Join(Tail(Split(CleanPageContent(pages[i].content), "\n")),
                                    <<"\n">>)
            /\ HeadingCount(return_value[1]) = Sum(Len(pages)) - Cardinality(joins)

\* the pages of number n, in the order they were added
AddedWith(n) == SelectSeq(call_args, LAMBDA page : page.number = n)

\* the added pages by ascending number, each number's in the order added
RECURSIVE AscendingFrom(_)
AscendingFrom(n) ==
    IF n > MaxPageNumber THEN <<>> ELSE AddedWith(n) \o AscendingFrom(n + 1)

\* C19: whatever the order of the add_page calls, stitch_all assembles the
\* pages by ascending number, keeps every entry, and keeps the entries of one
\* number in the order they were added.
C19_StitchOrder ==
    return_value # <<>> =>
        /\ pages = AscendingFrom(1)
        /\ Len(pages) = Len(call_args)
        /\ \A i, j \in 1..Len(pages) : i < j => pages[i].number <= pages[j].number
        /\ return_value[1] =
               IF call_args = <<>> THEN <<>>
               ELSE FinalCleanup(Join(StitchPages(AscendingFrom(1), 1, <<>>),
                                      <<"\n", "\n">>))

\* page 2 added first, then two different pages numbered 1
C19_Witness ==
    /\ return_value # <<>>
    /\ Len(call_args) = 3
    /\ call_args[1].number = 2
    /\ call_args[2] = [number |-> 1, content |-> TextLine]
    /\ call_args[3] = [number |-> 1, content |-> HeadingLine]
    /\ pages = <<call_args[2], call_args[3], call_args[1]>>

(***************************************************************************)
(* MarkdownStitcher._similar_text, called on pairs of lines                *)
(***************************************************************************)

\* the longest line of the pairs
MaxLineLen == 3

LineChars == {"#", " ", "a", "b", "A"}

Introduction == <<"#", "#", " ", "I", "n", "t", "r", "o", "d", "u", "c", "t", "i", "o", "n">>

IntroductionLower == <<"#", "#", " ", "i", "n", "t", "r", "o", "d", "u", "c", "t", "i", "o", "n">>

ChapterOne == <<"#", "#", " ", "C", "h", "a", "p", "t", "e", "r", " ", "O", "n", "e">>

ChapterTwo == <<"#", "#", " ", "C", "h", "a", "p", "t", "e", "r", " ", "T", "w", "o">>

ExampleLines == {Introduction, IntroductionLower, ChapterOne, ChapterTwo}

InitSimilar ==
    /\ Constructed
    /\ call_args \in (SeqsUpTo(LineChars, MaxLineLen) \X SeqsUpTo(LineChars, MaxLineLen))
                         \cup (ExampleLines \X ExampleLines)
    /\ return_value = <<>>

SimilarTextCall ==
    /\ return_value = <<>>
    /\ return_value' = <<SimilarText(call_args[1], call_args[2])>>
    /\ UNCHANGED <<vars_but_unit, call_args>>

NextSimilar == SimilarTextCall

SpecSimilar == InitSimilar /\ [][NextSimilar]_vars

\* the test as it is described: not similar if either cleaned line is empty,
\* similar if the shorter is a substring of the longer, and otherwise similar
\* exactly when the positions that agree are at least 0.8 of the longer length
SimilarAsDescribed(text1, text2) ==
    LET clean1 == CleanText(text1)
        clean2 == CleanText(text2)
        longer  == IF Len(clean1) >= Len(clean2) THEN clean1 ELSE clean2
        shorter == IF Len(clean1) >= Len(clean2) THEN clean2 ELSE clean1
    IN  IF clean1 = <<>> \/ clean2 = <<>> THEN FALSE
        ELSE IF Contains(longer, shorter) THEN TRUE
        ELSE CommonCount(clean1, clean2) * SimilarityDen >= SimilarityNum * Len(longer)

\* C20: _similar_text gives what the described test gives; so it is true for
\* "## Introduction" and "## introduction" and false for "## Chapter One" and
\* "## Chapter Two", of which 9 of 12 positions agree.
C20_SimilarityTest ==
    return_value # <<>> =>
        /\ return_value[1] = SimilarAsDescribed(call_args[1], call_args[2])
        /\ call_args = <<Introduction, IntroductionLower>> => return_value[1] = TRUE
        /\ call_args = <<ChapterOne, ChapterTwo>> => return_value[1] = FALSE

(***************************************************************************)
(* The command line: main (main.py, lines 122-174)                         *)
(***************************************************************************)

\* what main is started with: GEMINI_API_KEY is set, the input path exists,
\* the test request to the service is answered
MainEnvironments == [api_key : BOOLEAN, input_exists : BOOLEAN, connects : BOOLEAN]

\* call_args is the environment of the process, return_value the exit code and
\* the place of the sys.exit once the process has exited
InitMain ==
    /\ Constructed
    /\ call_args \in MainEnvironments
    /\ return_value = <<>>

Exited == return_value # <<>>

SysExit(code, at) ==
    /\ return_value' = <<code, at>>
    /\ UNCHANGED <<vars_but_unit, call_args>>

\* faulty variant: one handler for everything process_book raises
ExitCodeAnyFailure(outcome) ==
    IF outcome = "done" THEN 0 ELSE 1

\* lines 166, 171, 174: the exit code for the way process_book ended
ExitCode(outcome) ==
    CASE outcome = "done" -> 0
      [] outcome = "interrupted" -> 130
      [] OTHER -> 1

\* lines 123-128
MainNoApiKey ==
    /\ ~Exited
    /\ ~call_args.api_key
    /\ SysExit(1, "api_key")

\* lines 131-133
MainNoInput ==
    /\ ~Exited
    /\ call_args.api_key
    /\ ~call_args.input_exists
    /\ SysExit(1, "input")

\* main is inside its try block and process_book has not been called
BeforeProcessBook ==
    /\ ~Exited
    /\ call_args.api_key
    /\ call_args.input_exists
    /\ pc = "idle"

\* lines 148-150: SystemExit is not an Exception, the handlers let it pass
MainNoConnection ==
    /\ BeforeProcessBook
    /\ ~call_args.connects
    /\ SysExit(1, "connection")

\* lines 168-171, a KeyboardInterrupt in the constructor or in test_connection
MainInterrupted ==
    /\ BeforeProcessBook
    /\ SysExit(ExitCode("interrupted"), "interrupted")

\* lines 154-160: the call of process_book and the steps of its run
MainProcessBook ==
    /\ ~Exited
    /\ call_args.api_key
    /\ call_args.input_exists
    /\ call_args.connects
    /\ pc \notin {"done", "failed", "interrupted"}
    /\ Next

\* lines 162-174: process_book returned or raised
MainExit ==
    /\ ~Exited
    /\ pc \in {"done", "failed", "interrupted"}
    /\ SysExit(ExitCode(pc), "process_book")

NextMain ==
    \/ MainNoApiKey
    \/ MainNoInput
    \/ MainNoConnection
    \/ MainInterrupted
    \/ MainProcessBook
    \/ MainExit

SpecMain == InitMain /\ [][NextMain]_vars

\* C21: the process exits 0 exactly when process_book returned normally, 130
\* exactly when it was interrupted, 1 in every other case; a missing API key,
\* a missing input file, a failed connectivity check and a validation error
\* give 1, and with a failed connectivity check no page was processed.
C21_ExitCodes ==
    Exited =>
        LET code == return_value[1]
            at   == return_value[2]
        IN  /\ code \in {0, 1, 130}
            /\ code = 0 <=> pc = "done"
            /\ code = 130 <=> (pc = "interrupted" \/ at = "interrupted")
            /\ at \in {"api_key", "input", "connection"} =>
                   /\ code = 1
                   /\ runs = 0 /\ calls = <<>> /\ pageLog = <<>> /\ pages = <<>>
            /\ (~call_args.api_key \/ ~call_args.input_exists) => code = 1
            /\ (pc = "failed" /\ raised.kind = "ValueError") => code = 1

\* the process exited after a failed connectivity check
C21_Witness ==
    /\ Exited
    /\ return_value = <<1, "connection">>
    /\ ~call_args.connects

(***************************************************************************)
(* ContextManager on its own: its methods called in any order              *)
(***************************************************************************)

MaxCalls == 3

\* fragments as a caller may pass them: trimmed, padded, blank
ContextTexts == {<<"j", "u">>, <<" ", "a", "\n">>, <<" ">>}

\* call_args is the sequence of the calls made, return_value the value the last
\* get_context_for_next_page returned
InitContext ==
    /\ Constructed
    /\ call_args = <<>>
    /\ return_value = <<>>

ContextCall(op, text, page_number) ==
    [op |-> op, text |-> text, page |-> page_number]

\* set_incomplete_text(text, page_number)
SetIncompleteTextCall(text, page_number) ==
    /\ Len(call_args) < MaxCalls
    /\ LET after == SetIncompleteText(context_history, text, page_number)
       IN  /\ current_context' = after.current
           /\ context_history' = after.history
    /\ call_args' = Append(call_args, ContextCall("set", text, page_number))
    /\ UNCHANGED <<pc, stopped_at, runs, args, cacheFile, outputFile,
                   processed_pages, stats, page_num, result, attempt,
                   last_error, raised, pages, final_markdown, pageLog, calls,
                   saves, saveFailed, failedSaves, cache_at_start, prev,
                   return_value>>

\* faulty variant: the read consumes the fragment
GetContextCallConsumes ==
    /\ Len(call_args) < MaxCalls
    /\ return_value' = <<GetContextForNextPage>>
    /\ current_context' = None
    /\ call_args' = Append(call_args, ContextCall("get", <<>>, 0))
    /\ UNCHANGED <<pc, stopped_at, runs, args, cacheFile, outputFile,
                   processed_pages, stats, page_num, result, attempt,
                   last_error, raised, context_history, pages, final_markdown,
                   pageLog, calls, saves, saveFailed, failedSaves,
                   cache_at_start, prev>>

\* get_context_for_next_page()
GetContextCall ==
    /\ Len(call_args) < MaxCalls
    /\ return_value' = <<GetContextForNextPage>>
    /\ call_args' = Append(call_args, ContextCall("get", <<>>, 0))
    /\ UNCHANGED <<pc, stopped_at, runs, args, cacheFile, outputFile,
                   processed_pages, stats, page_num, result, attempt,
                   last_error, raised, contextVars, pages, final_markdown,
                   pageLog, calls, saves, saveFailed, failedSaves,
                   cache_at_start, prev>>

\* clear_context()
ClearContextCall ==
    /\ Len(call_args) < MaxCalls
    /\ LET after == ClearContext(context_history)
       IN  /\ current_context' = after.current
           /\ context_history' = after.history
    /\ call_args' = Append(call_args, ContextCall("clear", <<>>, 0))
    /\ UNCHANGED <<pc, stopped_at, runs, args, cacheFile, outputFile,
                   processed_pages, stats, page_num, result, attempt,
                   last_error, raised, pages, final_markdown, pageLog, calls,
                   saves, saveFailed, failedSaves, cache_at_start, prev,
                   return_value>>

\* len(get_context_history()) put into the statistics, as process_book does
\* at lines 144-146
ContextTransitionsCall ==
    /\ Len(call_args) < MaxCalls
    /\ stats' = [context_transitions |-> Len(context_history)] @@ stats
    /\ call_args' = Append(call_args, ContextCall("transitions", <<>>, 0))
    /\ UNCHANGED <<pc, stopped_at, runs, args, cacheFile, outputFile,
                   processed_pages, page_num, result, attempt,
                   last_error, raised, contextVars, pages, final_markdown,
                   pageLog, calls, saves, saveFailed, failedSaves,
                   cache_at_start, prev, return_value>>

NextContext ==
    \/ \E text \in ContextTexts, page_number \in 1..MaxPageNumber :
           SetIncompleteTextCall(text, page_number)
    \/ GetContextCall
    \/ ClearContextCall
    \/ ContextTransitionsCall

SpecContext == InitContext /\ [][NextContext]_vars

\* the (page_number, trimmed fragment) pairs of the set_incomplete_text calls
\* of a sequence of calls, in call order
RECURSIVE SetCallPairs(_)
SetCallPairs(log) ==
    IF log = <<>> THEN <<>>
    ELSE LET last == log[Len(log)]
             before == SetCallPairs(SubSeq(log, 1, Len(log) - 1))
         IN  IF last.op = "set"
             THEN Append(before, [page |-> last.page, fragment |-> Strip(last.text)])
             ELSE before

\* the operation of the call a step makes
StepOp == call_args'[Len(call_args')].op

C22_HistoryIsSetCalls == context_history = SetCallPairs(call_args)

C22_HistoryStep ==
    /\ Len(context_history') >= Len(context_history)
    /\ SubSeq(context_history', 1, Len(context_history)) = context_history
    /\ StepOp \in {"get", "clear", "transitions"} => context_history' = context_history
    /\ StepOp = "transitions" =>
           stats'.context_transitions = Len(context_history')

\* C22: after any sequence of calls the history is the sequence of
\* (page_number, trimmed fragment) pairs of the set_incomplete_text calls in
\* call order; no call shortens it, clear_context and
\* get_context_for_next_page leave it as it is, and the context_transitions
\* put into the statistics is its length.
C22_HistoryAppendOnly ==
    []C22_HistoryIsSetCalls /\ [][C22_HistoryStep]_vars

\* a fragment was set, cleared, and another set: both are in the history
C22_Witness ==
    /\ Len(call_args) = 3
    /\ call_args[1].op = "set"
    /\ call_args[2].op = "clear"
    /\ call_args[3].op = "set"
    /\ Len(context_history) = 2

\* the tracker is idle (no fragment) or carrying (a fragment is set)
Carrying == current_context # None

C23_TrackerStep ==
    /\ StepOp = "set" =>
           /\ current_context' = Strip(call_args'[Len(call_args')].text)
           /\ Carrying'
    /\ StepOp = "clear" => ~Carrying'
    /\ StepOp \in {"get", "transitions"} => current_context' = current_context
    /\ StepOp = "get" =>
           /\ return_value' = <<current_context>>
           /\ context_history' = context_history
           /\ (call_args # <<>> /\ call_args[Len(call_args)].op = "get") =>
                  return_value' = return_value

\* C23: the current fragment changes only through set_incomplete_text, which
\* leaves the tracker carrying the trimmed new fragment whatever it carried
\* before, and clear_context, which leaves it idle;
\* get_context_for_next_page returns the current fragment and changes neither
\* it nor the history, so a read that follows a read returns the same value.
C23_TrackerStateMachine == [][C23_TrackerStep]_vars

\* a fragment was set and then read twice
C23_Witness ==
    /\ Len(call_args) = 3
    /\ call_args[1].op = "set"
    /\ call_args[2].op = "get"
    /\ call_args[3].op = "get"
    /\ return_value = <<current_context>>
    /\ Carrying

(***************************************************************************)
(* The context update of the page loop                                     *)
(***************************************************************************)

\* the fragment the Context Tracker holds once set_incomplete_text or
\* clear_context was called for a page of the log (lines 124-130)
ContextAfter(entry) ==
    IF entry.how \in {"hit", "fresh"} /\ EndsIncomplete(entry.result)
    THEN Strip(entry.result.incomplete_text)
    ELSE None

\* C24: every page the Page Source yields gets one set_incomplete_text or
\* clear_context before the next page, so between two pages the current
\* fragment is the one of the page just handled, and the fragment handed to an
\* extraction call is the one of the page yielded immediately before.
C24_OneContextUpdatePerPage ==
    /\ (pc = "pages" /\ pageLog # <<>>) =>
           current_context = ContextAfter(pageLog[Len(pageLog)])
    /\ \A i \in 1..Len(calls) :
           calls[i].after > 0 =>
               calls[i].context = ContextAfter(pageLog[calls[i].after])

(***************************************************************************)
(* _parse_response without a fenced block                                  *)
(***************************************************************************)

\* the text holds an opening markdown tag and, after it, a closing fence
HasFencedBlock(response_text) ==
    /\ Contains(response_text, FenceMd)
    /\ Find(response_text, Fence,
            Find(response_text, FenceMd, 0) + Len(FenceMd)) # -1

\* C25: for a response without a fenced markdown block the markdown is the
\* whole response trimmed, with the {EOL} sentinel removed, and it is not
\* empty when the response holds more than blanks and sentinels.
C25_ParserFallback ==
    (return_value # <<>> /\ ~HasFencedBlock(call_args.response_text)) =>
        /\ return_value[1].markdown =
               Strip(Replace(Strip(call_args.response_text), EolTag, <<>>))
        /\ Strip(Replace(call_args.response_text, EolTag, <<>>)) # <<>> =>
               return_value[1].markdown # <<>>

(***************************************************************************)
(* _handle_page_transition, called on the last line of a page and the      *)
(* content of the next                                                     *)
(***************************************************************************)

OtherHeading == <<"#", " ", "U">>

LongerHeading == <<"#", " ", "T", "U">>

LowerHeading == <<"#", "#", " ", "t">>

PlainLine == <<"T">>

\* the lines a page ends or begins with
TransitionLines ==
    {HeadingLine, OtherHeading, LongerHeading, LowerHeading, PlainLine, TextLine}

\* page contents of one or two lines
TransitionContents ==
    TransitionLines
        \cup {first \o <<"\n">> \o second : first \in TransitionLines,
                                            second \in TransitionLines}

\* call_args is <<previous_last_line, current_content>>
InitTransition ==
    /\ Constructed
    /\ call_args \in TransitionLines \X TransitionContents
    /\ return_value = <<>>

HandlePageTransitionCall ==
    /\ return_value = <<>>
    /\ return_value' = <<HandlePageTransition(call_args[1], call_args[2])>>
    /\ UNCHANGED <<vars_but_unit, call_args>>

NextTransition == HandlePageTransitionCall

SpecTransition == InitTransition /\ [][NextTransition]_vars

\* current_lines[0].strip()
FirstLine(content) == Strip(Split(content, "\n")[1])

\* the call returned the content without its first line
FirstLineDropped ==
    /\ return_value # <<>>
    /\ return_value[1] # call_args[2]

\* C26: when the first line of a page is dropped, it is a heading, the last
\* line of the previous page is a heading, and the two have the same text
\* once the markup characters are removed and the case is lowered; a heading
\* with another text is never dropped.
C26_DedupKeepsContent ==
    FirstLineDropped =>
        /\ IsHeader(FirstLine(call_args[2]))
        /\ IsHeader(Strip(call_args[1]))
        /\ CleanText(FirstLine(call_args[2])) = CleanText(Strip(call_args[1]))

(***************************************************************************)
(* The spacing of headings in the stitched document                        *)
(***************************************************************************)

\* line k of the text is a heading with exactly one blank line before it
OneBlankLineBefore(lines, k) ==
    /\ k >= 3
    /\ Strip(lines[k - 1]) = <<>>
    /\ Strip(lines[k - 2]) # <<>>

\* C27: in the document stitch_all returns, every heading line but the first
\* line of the document has exactly one blank line before it, a heading that
\* opens a page and a heading after a blank line of the page included.
C27_HeadingSpacing ==
    return_value # <<>> =>
        LET lines == Split(return_value[1], "\n")
        IN  \A k \in 2..Len(lines) :
                IsHeader(lines[k]) => OneBlankLineBefore(lines, k)

(***************************************************************************)
(* process_book called again on the same BookProcessor                     *)
(***************************************************************************)

\* a further call of process_book after one that returned: __init__ does not
\* run again, so the ContextManager and the MarkdownStitcher are the objects
\* of the call before; the locals of process_book are new
ProcessBookAgain(start_page, end_given, end_page, resume) ==
    /\ pc = "done"
    /\ runs < MaxRuns
    /\ pc' = "validate"
    /\ runs' = runs + 1
    /\ args' = [start_page |-> start_page, end_given |-> end_given,
                end_page |-> end_page, resume |-> resume]
    /\ prev' = RunSummary
    /\ outputFile' = AbsentFile
    /\ ResetLocals
    /\ ResetLogs
    /\ UNCHANGED <<unitVars, cacheFile, contextVars, pages>>

NextReuse ==
    \/ \E start_page \in StartPages, end_page \in EndPages, resume \in BOOLEAN :
           /\ start_page <= end_page
           /\ ProcessBook(start_page, TRUE, end_page, resume)
    \/ \E start_page \in StartPages, resume \in BOOLEAN :
           ProcessBook(start_page, FALSE, 0, resume)
    \/ \E start_page \in StartPages, end_page \in EndPages, resume \in BOOLEAN :
           /\ start_page <= end_page
           /\ ProcessBookAgain(start_page, TRUE, end_page, resume)
    \/ \E start_page \in StartPages, resume \in BOOLEAN :
           ProcessBookAgain(start_page, FALSE, 0, resume)
    \/ ValidateOk
    \/ ValidateFails
    \/ LoadCacheStep
    \/ YieldPage
    \/ SkipPage
    \/ PageSourceRaises
    \/ PagesDone
    \/ CacheHit
    \/ CallExtract
    \/ OptimizeFails
    \/ \E kind \in ErrorKinds : AttemptFails(kind)
    \/ \E response_text \in Responses : AttemptSucceeds(response_text)
    \/ ExtractFailed
    \/ CacheStore
    \/ SaveCacheOk
    \/ SaveCacheFails
    \/ SaveCacheOpenFails
    \/ AddPage
    \/ Stitch
    \/ OpenOutput
    \/ WriteOutput
    \/ OutputFails
    \/ Report
    \/ Interrupt

SpecReuse == Init /\ [][NextReuse]_vars

\* the pages the running call has put into the Stitcher
PagesOfRun ==
    [i \in 1..Len(HandledLog(pageLog)) |->
        [number  |-> HandledLog(pageLog)[i].page,
         content |-> HandledLog(pageLog)[i].result.markdown]]

\* C28: a call of process_book that follows a returned call on the same
\* BookProcessor hands no fragment to its first extraction call, and when it
\* returns, the document and the statistics are those of its own pages.
C28_PerRunBuffers ==
    runs >= 2 =>
        /\ \A i \in 1..Len(calls) : calls[i].after = 0 => calls[i].context = None
        /\ pc = "done" =>
               /\ final_markdown = StitchAll(PagesOfRun)
               /\ stats.total_pages = Len(PagesOfRun)
               /\ stats.total_chars = GetStats(PagesOfRun).total_chars
               /\ stats.context_transitions = Len(IncompleteLog(pageLog))

(***************************************************************************)
(* The statistics of a run                                                 *)
(***************************************************************************)

\* the statistics exist: the run is in the page loop or past it
StatsStarted == Position \in ActivePcs \cup {"done"} /\ Position \notin {"validate", "load"}

\* the pages of the requested range the document has
PagesInDocument == {n \in args.start_page..args.end_page : n <= NumPages}

\* C29: on a fresh BookProcessor, processed + errors is the number of pages
\* handled so far at every point of the page loop, processed counting the
\* pages taken from the cache and the pages extracted; cached is the number
\* of entries loaded from the cache file (none without resume); when the run has returned,
\* processed + errors is the number of pages the Page Source yielded and
\* total_pages is the number of pages added to the Stitcher, which is
\* processed.
C29_StatisticsAccounting ==
    StatsStarted =>
        /\ stats.processed + stats.errors = Len(pageLog)
        /\ stats.processed = Cardinality(LogIndexes("hit") \cup LogIndexes("fresh"))
        /\ stats.processed = Len(pages)
        /\ stats.cached = IF args.resume THEN Cardinality(DOMAIN LoadedAtStart) ELSE 0
        /\ pc = "done" =>
               /\ stats.processed + stats.errors = Cardinality(PagesInDocument)
               /\ stats.total_pages = Len(pages)
               /\ stats.total_pages = stats.processed

\* a resumed run over the whole document has returned: one page came from the
\* cache, the extraction of the other failed, so that total_pages is 1 while
\* the range has two pages
C29_Witness ==
    /\ pc = "done"
    /\ args.start_page = 1
    /\ args.end_page = NumPages
    /\ LogIndexes("hit") # {}
    /\ stats.errors = 1
    /\ stats.total_pages = 1
    /\ stats.cached = 1
    /\ args.resume

(***************************************************************************)
(* The cache file of a resumed run                                         *)
(***************************************************************************)

\* the keys of the pages extracted in this run
FreshKeys == {StoreKey(pageLog[i].page) : i \in LogIndexes("fresh")}
                 \cup {StoreKey(saves[i]) : i \in 1..Len(saves)}

\* C30: in a run with resume=true that read a cache file, the mapping every
\* save writes holds the loaded entries as they were loaded, and outside a
\* write in progress the cache file holds them too, together with nothing
\* but pages extracted in this run.
C30_CacheMonotone ==
    (args.resume /\ cache_at_start.st = "ok") =>
        /\ \A k \in DOMAIN LoadedAtStart :
               /\ k \in DOMAIN processed_pages
               /\ processed_pages[k] = LoadedAtStart[k]
        /\ pc # "save_write" =>
               /\ cacheFile.st = "ok"
               /\ \A k \in DOMAIN LoadedAtStart :
                      /\ k \in DOMAIN cacheFile.data
                      /\ cacheFile.data[k] = LoadedAtStart[k]
               /\ DOMAIN cacheFile.data \subseteq DOMAIN LoadedAtStart \cup FreshKeys

====
